---- MODULE Spec2Model ----
(***************************************************************************)
(* The in-process memory adapter of echo-http-cache                        *)
(* (adapter/memory/memory.go): a map from a 64-bit key to a gob-encoded    *)
(* Response, guarded by a sync.RWMutex, bounded by `capacity`, with the    *)
(* eviction algorithms LRU, MRU, LFU and MFU.                              *)
(*                                                                         *)
(* Every goroutine is a small state machine. Its steps are the code's      *)
(* read sections (RLock, one read of the map, RUnlock, which is atomic for *)
(* every other goroutine), its Lock acquisitions, its write sections (the  *)
(* write and the Unlock), its clock readings and the iterations of evict's *)
(* range loop, which holds no lock.                                        *)
(***************************************************************************)
EXTENDS Integers, Sequences, FiniteSets, TLC

\* ------------------------------------------------------------- bounds

\* The wall clock reads 1..MaxTime.
MaxTime == 3

\* Calls of Set per goroutine under SpecWriters (concurrent callers).
MaxCalls == 2

\* Calls of the single caller under Spec; one more under SpecLRU and
\* SpecMFU.
MaxSeqCalls == 3

\* Largest capacity NewAdapter is asked for.
MaxCapacity == 3

\* Longest option list handed to NewAdapter under SpecNew.
MaxOpts == 2

\* ------------------------------------------------------------- inputs

\* The smallest capacity NewAdapter accepts (line 216 refuses
\* capacity <= 1): the capacity the adapters of the specifications have.
MinCapacity == 2

\* The keys callers use (uint64 in the code): one more than fit, 0 among
\* them.
Keys == 0..MinCapacity

\* Every key a caller of any specification uses: the keys 1..4 of the
\* LRU scenario among them.
AllKeys == 0..(MinCapacity + 2)

\* The goroutines that call the adapter.
Procs == {1, 2}

\* The caller of the specifications with one caller.
SeqProc == CHOOSE p \in Procs : \A q \in Procs : p <= q

\* Go's nil slice; cached response values (opaque []byte in the code) are
\* the numbers 1, 2.
Nil == 0

\* ------------------------------------------------------ time.Time

\* time.Time{} : before every reading of the clock.
ZeroTime == 0

Times == 1..MaxTime

\* What a caller passes to Set, <<response, expiration>>: one value with an
\* expiration that passes while the clock runs, another with one that
\* never does.
SetArgs == {<<1, 2>>, <<2, MaxTime + 1>>}

\* What a caller that only calls Set passes to it.
WriterArgs == {<<1, MaxTime + 1>>}

\* What time.Now() may read when the last reading was t: the clock does
\* not run backwards, and two readings in a row may be equal. The code
\* only compares times, so one step per reading reaches every order of
\* the readings.
Readings(t) == {u \in {t, t + 1} : u <= MaxTime}

Before(t, u) == t < u

After(t, u) == t > u

Equal(t, u) == t = u

\* ------------------------------------------------------ Algorithm

LRU == "LRU"

MRU == "MRU"

LFU == "LFU"

MFU == "MFU"

Algorithms == {LRU, MRU, LFU, MFU}

\* The zero Algorithm, and a label that is none of the four constants.
NoAlgorithm == ""

OtherAlgorithm == "FIFO"

\* evict's initial `frequency`.
MaxInt32 == 2147483647

\* ------------------------------------------------------ Response codec

\* The zero Response (var r Response).
ZeroResponse == [Value |-> Nil, Expiration |-> ZeroTime, LastAccess |-> ZeroTime, Frequency |-> 0]

\* Response.Bytes: the gob stream, its fields in declaration order.
Bytes(r) == <<r.Value, r.Expiration, r.LastAccess, r.Frequency>>

\* memory.BytesToResponse: the decode error is dropped, so a stream that
\* does not decode leaves the zero Response.
BytesToResponse(b) ==
    IF Len(b) = 4
    THEN [Value |-> b[1], Expiration |-> b[2], LastAccess |-> b[3], Frequency |-> b[4]]
    ELSE ZeroResponse

\* cache.BytesToResponse, which evict calls (package cache, outside src/):
\* the decoder of the same record.
CacheBytesToResponse(b) ==
    IF Len(b) = 4
    THEN [Value |-> b[1], Expiration |-> b[2], LastAccess |-> b[3], Frequency |-> b[4]]
    ELSE ZeroResponse

\* ------------------------------------------------------ map[uint64][]byte

EmptyMap == [x \in {} |-> <<>>]

\* len(m)
MapLen(m) == Cardinality(DOMAIN m)

\* m[k] = b
MapPut(m, k, b) == [x \in (DOMAIN m) \cup {k} |-> IF x = k THEN b ELSE m[x]]

\* A delete that removes nothing.
MapKeep(m, k) == m

\* delete(m, k)
MapDelete(m, k) == [x \in (DOMAIN m) \ {k} |-> m[x]]

\* ------------------------------------------------------ construction

\* The zero Adapter (a := &Adapter{}).
ZeroAdapter == [capacity |-> 0, algorithm |-> NoAlgorithm]

\* AdapterWithAlgorithm(alg) and AdapterWithCapacity(cap) as values.
AdapterWithAlgorithm(alg) == [opt |-> "algorithm", alg |-> alg, cap |-> 0]

AdapterWithCapacity(cap) == [opt |-> "capacity", alg |-> NoAlgorithm, cap |-> cap]

\* opt(a): the option applied to the adapter; err is the option's error.
ApplyOption(o, a) ==
    IF o.opt = "algorithm"
    THEN [err |-> FALSE, a |-> [a EXCEPT !.algorithm = o.alg]]
    ELSE IF o.cap <= 1
         THEN [err |-> TRUE, a |-> a]
         ELSE [err |-> FALSE, a |-> [a EXCEPT !.capacity = o.cap]]

\* The loop over opts: stops at the first option that fails.
RECURSIVE ApplyOptions(_, _)
ApplyOptions(opts, a) ==
    IF opts = <<>>
    THEN [err |-> FALSE, a |-> a]
    ELSE LET r == ApplyOption(Head(opts), a)
         IN  IF r.err THEN r ELSE ApplyOptions(Tail(opts), r.a)

\* NewAdapter(opts...): (adapter, nil) or (nil, err).
NewAdapter(opts) ==
    LET r == ApplyOptions(opts, ZeroAdapter)
    IN  IF r.err THEN [err |-> TRUE, a |-> ZeroAdapter]
        ELSE IF r.a.capacity <= 1 THEN [err |-> TRUE, a |-> ZeroAdapter]
        ELSE IF r.a.algorithm = NoAlgorithm THEN [err |-> TRUE, a |-> ZeroAdapter]
        ELSE [err |-> FALSE, a |-> r.a]

\* ------------------------------------------------------ state

VARIABLES
    capacity,       \* Adapter.capacity
    algorithm,      \* Adapter.algorithm
    store,          \* Adapter.store: key -> encoded Response
    mutex,          \* Adapter.mutex: the goroutine holding Lock (0: none)
    now,            \* the wall clock: what time.Now() read last
    g,              \* per goroutine: position and locals of the call in progress
    budget,         \* per goroutine: calls it may still make
    fatal,          \* the runtime has thrown "concurrent map iteration and map write"
    opts,           \* the options NewAdapter is called with
    built,          \* "pending" | "ok" | "err": NewAdapter's outcome
    lastSet,        \* history: per key, the arguments of the last Set of it that
                    \* returned, until a delete or a Purge removes the key
    hits,           \* history: per key, the Gets that returned found since the
                    \* last Set of it returned, until a delete or a Purge
    setKeys,        \* history: the keys Set was called with, while onlySets
                    \* and newKeys
    onlySets,       \* history: every call so far was a Set
    newKeys         \* history: no two calls so far were Sets of the same key

vars == <<capacity, algorithm, store, mutex, now, g, budget, fatal, opts, built,
          lastSet, hits, setKeys, onlySets, newKeys>>

\* What a goroutine's last call returned: Get's (value, found) for its
\* key; Set, Release and Purge return nothing.
NoRet == [op |-> "none", key |-> 0, value |-> Nil, found |-> FALSE]

GetRet(k, v, found) == [op |-> "Get", key |-> k, value |-> v, found |-> found]

\* No Set of the key is on record. past: the expiration was before the
\* time the Set read. purged: a Purge took the key's record.
NoSet == [value |-> Nil, expiration |-> ZeroTime, past |-> FALSE, purged |-> FALSE]

PurgedSet == [NoSet EXCEPT !.purged = TRUE]

\* A goroutine between calls. ret is what its last call returned. Of the
\* call in progress, pre is the map as it was when the call was made and at
\* the time the call read first (Set at line 125, Get at line 109).
IdleG ==
    [pc |-> "idle", op |-> "none", key |-> 0, res |-> <<>>, response |-> ZeroResponse,
     length |-> 0, selectedKey |-> 0, lastAccess |-> ZeroTime, frequency |-> 0,
     seen |-> <<>>, fresh |-> {}, old |-> FALSE, oldmap |-> EmptyMap,
     rkey |-> 0, ret |-> NoRet, pre |-> EmptyMap, at |-> ZeroTime]

\* The state NewAdapter(o) leaves when it succeeds; b is the calls each
\* goroutine will make.
Constructed(o, b) ==
    /\ opts = o
    /\ built = "ok"
    /\ capacity = NewAdapter(o).a.capacity
    /\ algorithm = NewAdapter(o).a.algorithm
    /\ store = EmptyMap
    /\ mutex = 0
    /\ now = 1
    /\ g = [p \in Procs |-> IdleG]
    /\ budget = b
    /\ fatal = FALSE
    /\ lastSet = [k \in AllKeys |-> NoSet]
    /\ hits = [k \in AllKeys |-> 0]
    /\ setKeys = {}
    /\ onlySets = TRUE
    /\ newKeys = TRUE

\* ------------------------------------------------------ sync.RWMutex

\* RLock returns when no goroutine holds Lock; Lock returns when none
\* holds Lock (a read section is over within the step that enters it).
Unlocked == mutex = 0

\* ------------------------------------------------------ calls and returns

Running == built = "ok" /\ ~fatal

CanCall(p) == Running /\ g[p].pc = "idle" /\ budget[p] > 0

\* The call p makes, with the frame it starts in; isSet: it is a Set, of
\* key k.
Call(p, frame, isSet, k) ==
    /\ g' = [g EXCEPT ![p] = frame]
    /\ budget' = [budget EXCEPT ![p] = @ - 1]
    /\ onlySets' = (onlySets /\ isSet)
    /\ newKeys' = (newKeys /\ (isSet => k \notin setKeys))
    /\ setKeys' = IF onlySets' /\ newKeys' THEN setKeys \cup {k} ELSE {}

\* p is the only goroutine that calls.
Alone(p) == \A q \in Procs \ {p} : g[q].pc = "idle" /\ budget[q] = 0

\* The map as it is when p makes a call, kept for the call of a goroutine
\* that is the only one calling.
Pre(p) == IF Alone(p) THEN store ELSE EmptyMap

\* p's call returns r.
Returned(r) == [IdleG EXCEPT !.ret = r]

\* A call of p that returns nothing returns: which call it was, of which
\* key, and whether it found the key in the map, is kept for a goroutine
\* that is the only one calling.
Done(p, op, k, ok) ==
    Returned(IF Alone(p) THEN [NoRet EXCEPT !.op = op, !.key = k, !.found = ok] ELSE NoRet)

\* p's range loop is walking the live map.
Ranging(p) == g[p].pc = "evict_range" /\ ~g[p].old

\* A key written into the live map while q ranges over it is one the
\* range loop may or may not produce.
NoteFresh(p, k) ==
    [q \in Procs |->
        IF q # p /\ Ranging(q) /\ k \notin DOMAIN store
        THEN [g[q] EXCEPT !.fresh = @ \cup {k}]
        ELSE g[q]]

\* ------------------------------------------------------ Get

\* Get(key) is called. Lines 101-106: RLock; res, ok := a.store[key];
\* RUnlock; a miss returns (nil, false).
Get(p, k) ==
    /\ CanCall(p)
    /\ Unlocked
    /\ Call(p, IF k \in DOMAIN store
               THEN [IdleG EXCEPT !.pc = "Get_check", !.op = "Get", !.key = k,
                                  !.res = store[k], !.pre = Pre(p)]
               ELSE Returned(GetRet(k, Nil, FALSE)),
            FALSE, k)
    /\ UNCHANGED <<capacity, algorithm, store, mutex, now, fatal, opts, built, lastSet, hits>>

\* An entry taken as valid at the instant it expires.
ValidAtExpiration(response, t) == ~Before(response.Expiration, t)

\* Line 109: response.Expiration.After(time.Now()).
StillValid(response, t) == After(response.Expiration, t)

\* Lines 108-109 and 119: decode; t is what time.Now() reads. An entry
\* that is not valid any more goes to a.Release(key).
GetCheck(p, t) ==
    /\ Running
    /\ g[p].pc = "Get_check"
    /\ t \in Readings(now)
    /\ now' = t
    /\ LET response == BytesToResponse(g[p].res)
       IN  g' = [g EXCEPT ![p] =
                    IF StillValid(response, t)
                    THEN [@ EXCEPT !.pc = "Get_touch", !.response = response, !.at = t]
                    ELSE [@ EXCEPT !.pc = "Release_read", !.response = response,
                                   !.rkey = g[p].key, !.at = t]]
    /\ UNCHANGED <<capacity, algorithm, store, mutex, budget, fatal, opts, built,
                   lastSet, hits, setKeys, onlySets, newKeys>>

\* A Get that does not count the access.
TouchLastAccess(response, t) == [response EXCEPT !.LastAccess = t]

\* Lines 110-111: response.LastAccess = time.Now(); response.Frequency++.
Touch(response, t) ==
    [response EXCEPT !.LastAccess = t, !.Frequency = @ + 1]

GetTouch(p, t) ==
    /\ Running
    /\ g[p].pc = "Get_touch"
    /\ t \in Readings(now)
    /\ now' = t
    /\ g' = [g EXCEPT ![p] = [@ EXCEPT !.pc = "Get_Lock", !.response = Touch(@, t)]]
    /\ UNCHANGED <<capacity, algorithm, store, mutex, budget, fatal, opts, built,
                   lastSet, hits, setKeys, onlySets, newKeys>>

\* Line 112: a.mutex.Lock().
GetLock(p) ==
    /\ Running
    /\ g[p].pc = "Get_Lock"
    /\ Unlocked
    /\ mutex' = p
    /\ g' = [g EXCEPT ![p].pc = "Get_write"]
    /\ UNCHANGED <<capacity, algorithm, store, now, budget, fatal, opts, built,
                   lastSet, hits, setKeys, onlySets, newKeys>>

\* Lines 113-115: a.store[key] = response.Bytes(); Unlock; return
\* response.Value, true.
GetWrite(p) ==
    /\ Running
    /\ g[p].pc = "Get_write"
    /\ store' = MapPut(store, g[p].key, Bytes(g[p].response))
    /\ mutex' = 0
    /\ g' = [NoteFresh(p, g[p].key) EXCEPT ![p] =
                Returned(GetRet(g[p].key, g[p].response.Value, TRUE))]
    /\ hits' = [hits EXCEPT ![g[p].key] = @ + 1]
    /\ UNCHANGED <<capacity, algorithm, now, budget, fatal, opts, built,
                   lastSet, setKeys, onlySets, newKeys>>

\* ------------------------------------------------------ Release

\* Where Release returns to: the API's caller, Get (line 119, which then
\* returns nil, false) or evict (line 203, after which Set goes on at
\* line 139).
ReleaseReturn(p) ==
    CASE g[p].op = "Get" -> Returned(GetRet(g[p].key, Nil, FALSE))
      [] g[p].op = "Set" -> [g[p] EXCEPT !.pc = "Set_Lock"]
      [] OTHER -> Done(p, "Release", g[p].key, g[p].pc = "Release_delete")

\* Lines 146-150 for the key k of frame f: RLock; _, ok := a.store[key];
\* RUnlock; when !ok there is nothing to delete.
ReleaseLookup(p, f, k) ==
    IF k \in DOMAIN store
    THEN [f EXCEPT !.pc = "Release_Lock", !.rkey = k]
    ELSE ReleaseReturn(p)

\* Release(key) is called by the API. Lines 146-150.
Release(p, k) ==
    /\ CanCall(p)
    /\ Unlocked
    /\ Call(p, IF k \in DOMAIN store
               THEN [IdleG EXCEPT !.pc = "Release_Lock", !.op = "Release", !.key = k,
                                  !.rkey = k, !.pre = Pre(p)]
               ELSE Done(p, "Release", k, FALSE),
            FALSE, k)
    /\ UNCHANGED <<capacity, algorithm, store, mutex, now, fatal, opts, built, lastSet, hits>>

\* Lines 146-150 when Release is called by Get or by evict.
ReleaseRead(p) ==
    /\ Running
    /\ g[p].pc = "Release_read"
    /\ Unlocked
    /\ g' = [g EXCEPT ![p] = ReleaseLookup(p, g[p], g[p].rkey)]
    /\ UNCHANGED <<capacity, algorithm, store, mutex, now, budget, fatal, opts, built,
                   lastSet, hits, setKeys, onlySets, newKeys>>

\* Line 151: a.mutex.Lock().
ReleaseLock(p) ==
    /\ Running
    /\ g[p].pc = "Release_Lock"
    /\ Unlocked
    /\ mutex' = p
    /\ g' = [g EXCEPT ![p].pc = "Release_delete"]
    /\ UNCHANGED <<capacity, algorithm, store, now, budget, fatal, opts, built,
                   lastSet, hits, setKeys, onlySets, newKeys>>

\* Lines 152-153: delete(a.store, key); Unlock.
ReleaseDelete(p) ==
    /\ Running
    /\ g[p].pc = "Release_delete"
    /\ store' = MapDelete(store, g[p].rkey)
    /\ mutex' = 0
    /\ g' = [g EXCEPT ![p] = ReleaseReturn(p)]
    /\ lastSet' = [lastSet EXCEPT ![g[p].rkey] = NoSet]
    /\ hits' = [hits EXCEPT ![g[p].rkey] = 0]
    /\ UNCHANGED <<capacity, algorithm, now, budget, fatal, opts, built, setKeys, onlySets, newKeys>>

\* ------------------------------------------------------ Purge

\* Purge() is called. Line 159: a.mutex.Lock().
Purge(p) ==
    /\ CanCall(p)
    /\ Unlocked
    /\ mutex' = p
    /\ Call(p, [IdleG EXCEPT !.pc = "Purge_make", !.op = "Purge", !.pre = Pre(p)], FALSE, 0)
    /\ UNCHANGED <<capacity, algorithm, store, now, fatal, opts, built, lastSet, hits>>

\* A Purge that leaves the map it finds.
PurgedNothing(m) == m

\* Line 162: a.store = make(map[uint64][]byte), whatever the map m was.
Purged(m) == EmptyMap

\* Line 162 and the deferred Unlock. A range loop that started on the
\* replaced map goes on walking that map.
PurgeMake(p) ==
    /\ Running
    /\ g[p].pc = "Purge_make"
    /\ store' = Purged(store)
    /\ mutex' = 0
    /\ g' = [q \in Procs |->
                IF q = p
                THEN Done(p, "Purge", 0, FALSE)
                ELSE IF Ranging(q)
                     THEN [g[q] EXCEPT !.old = TRUE, !.oldmap = store]
                     ELSE g[q]]
    /\ lastSet' = [k \in AllKeys |-> IF lastSet[k] = NoSet THEN NoSet ELSE PurgedSet]
    /\ hits' = [k \in AllKeys |-> 0]
    /\ UNCHANGED <<capacity, algorithm, now, budget, fatal, opts, built, setKeys, onlySets, newKeys>>

\* ------------------------------------------------------ evict

\* Lines 166-174: selectedKey, lastAccess and frequency before the loop; t
\* is what time.Now() reads.
EvictStart(alg, t) ==
    [selectedKey |-> 0,
     lastAccess |-> IF alg = MRU THEN ZeroTime ELSE t,
     frequency |-> IF alg = MFU THEN 0 ELSE MaxInt32]

\* An LRU that takes the later access, and an MFU that keeps the first of
\* the entries that tie.
LRUSelectsLater(r, c) == After(r.LastAccess, c.lastAccess)

MFUSelectsFirst(r, c) == r.Frequency > c.frequency

\* Lines 180, 185-186, 191 and 196: the test that makes the entry r the
\* one selected so far, c holding selectedKey, lastAccess and frequency.
LRUSelects(r, c) == Before(r.LastAccess, c.lastAccess)

MRUSelects(r, c) == After(r.LastAccess, c.lastAccess) \/ Equal(r.LastAccess, c.lastAccess)

LFUSelects(r, c) == r.Frequency < c.frequency

MFUSelects(r, c) == r.Frequency >= c.frequency

\* Lines 177-200: the loop body for the entry (k, v) under algorithm alg.
EvictVisit(alg, c, k, v) ==
    LET r == CacheBytesToResponse(v)
    IN  CASE alg = LRU ->
                IF LRUSelects(r, c)
                THEN [c EXCEPT !.selectedKey = k, !.lastAccess = r.LastAccess]
                ELSE c
          [] alg = MRU ->
                IF MRUSelects(r, c)
                THEN [c EXCEPT !.selectedKey = k, !.lastAccess = r.LastAccess]
                ELSE c
          [] alg = LFU ->
                IF LFUSelects(r, c)
                THEN [c EXCEPT !.selectedKey = k, !.frequency = r.Frequency]
                ELSE c
          [] alg = MFU ->
                IF MFUSelects(r, c)
                THEN [c EXCEPT !.selectedKey = k, !.frequency = r.Frequency]
                ELSE c
          [] OTHER -> c

\* The map p's range loop walks: a.store as it was read at line 176.
RangedMap(p) == IF g[p].old THEN g[p].oldmap ELSE store

\* The keys the loop has produced.
Seen(p) == {g[p].seen[i] : i \in 1..Len(g[p].seen)}

\* Lines 166-174; t is what time.Now() reads.
EvictInit(p, t) ==
    /\ Running
    /\ g[p].pc = "evict_init"
    /\ t \in Readings(now)
    /\ now' = t
    /\ LET c == EvictStart(algorithm, t)
       IN  g' = [g EXCEPT ![p] = [@ EXCEPT !.pc = "evict_range",
                                           !.selectedKey = c.selectedKey,
                                           !.lastAccess = c.lastAccess,
                                           !.frequency = c.frequency]]
    /\ UNCHANGED <<capacity, algorithm, store, mutex, budget, fatal, opts, built,
                   lastSet, hits, setKeys, onlySets, newKeys>>

\* Lines 176-201: one iteration of `for k, v := range a.store`, in the
\* map's order, which is any order. No lock is held.
EvictRange(p, k) ==
    /\ Running
    /\ g[p].pc = "evict_range"
    /\ k \in DOMAIN RangedMap(p)
    /\ k \notin Seen(p)
    /\ LET c == EvictVisit(algorithm,
                           [selectedKey |-> g[p].selectedKey,
                            lastAccess |-> g[p].lastAccess,
                            frequency |-> g[p].frequency],
                           k, RangedMap(p)[k])
       IN  g' = [g EXCEPT ![p] = [@ EXCEPT !.seen = Append(@, k),
                                           !.selectedKey = c.selectedKey,
                                           !.lastAccess = c.lastAccess,
                                           !.frequency = c.frequency]]
    /\ UNCHANGED <<capacity, algorithm, store, mutex, now, budget, fatal, opts, built,
                   lastSet, hits, setKeys, onlySets, newKeys>>

\* The loop ends when every entry was produced; an entry created while
\* the loop ran may have been skipped. Line 203: a.Release(selectedKey).
EvictRelease(p) ==
    /\ Running
    /\ g[p].pc = "evict_range"
    /\ DOMAIN RangedMap(p) \subseteq Seen(p) \cup g[p].fresh
    /\ g' = [g EXCEPT ![p] = [@ EXCEPT !.pc = "Release_read", !.rkey = g[p].selectedKey]]
    /\ UNCHANGED <<capacity, algorithm, store, mutex, now, budget, fatal, opts, built,
                   lastSet, hits, setKeys, onlySets, newKeys>>

\* The range loop runs while another goroutine is inside a write of the
\* same map: the runtime may throw "concurrent map iteration and map
\* write", which ends the process.
EvictFatal(p) ==
    /\ Running
    /\ Ranging(p)
    /\ mutex \in Procs \ {p}
    /\ g[mutex].pc \in {"Get_write", "Set_insert", "Release_delete"}
    /\ fatal' = TRUE
    /\ UNCHANGED <<capacity, algorithm, store, mutex, now, g, budget, opts, built,
                   lastSet, hits, setKeys, onlySets, newKeys>>

\* ------------------------------------------------------ Set

\* Lines 126-131: the Response Set stores; t is what time.Now() read.
NewResponse(v, e, t) ==
    [Value |-> v, Expiration |-> e, LastAccess |-> t, Frequency |-> 1]

\* Line 135: the test that sends Set to evict.
MustEvict(length, cap) == length > 0 /\ length = cap

\* Set(key, response, expiration) is called. Lines 125-131; t is what
\* time.Now() reads.
Set(p, k, v, e, t) ==
    /\ CanCall(p)
    /\ t \in Readings(now)
    /\ now' = t
    /\ Call(p, [IdleG EXCEPT !.pc = "Set_len", !.op = "Set", !.key = k,
                             !.response = NewResponse(v, e, t), !.pre = Pre(p), !.at = t],
            TRUE, k)
    /\ UNCHANGED <<capacity, algorithm, store, mutex, fatal, opts, built, lastSet, hits>>

\* Lines 132-137: RLock; length := len(a.store); RUnlock; evict when full.
SetLen(p) ==
    /\ Running
    /\ g[p].pc = "Set_len"
    /\ Unlocked
    /\ g' = [g EXCEPT ![p] = [@ EXCEPT !.length = MapLen(store),
                                       !.pc = IF MustEvict(MapLen(store), capacity)
                                              THEN "evict_init" ELSE "Set_Lock"]]
    /\ UNCHANGED <<capacity, algorithm, store, mutex, now, budget, fatal, opts, built,
                   lastSet, hits, setKeys, onlySets, newKeys>>

\* Line 139: a.mutex.Lock().
SetLock(p) ==
    /\ Running
    /\ g[p].pc = "Set_Lock"
    /\ Unlocked
    /\ mutex' = p
    /\ g' = [g EXCEPT ![p].pc = "Set_insert"]
    /\ UNCHANGED <<capacity, algorithm, store, now, budget, fatal, opts, built,
                   lastSet, hits, setKeys, onlySets, newKeys>>

\* Lines 140-141: a.store[key] = res.Bytes(); Unlock; Set returns.
SetInsert(p) ==
    /\ Running
    /\ g[p].pc = "Set_insert"
    /\ store' = MapPut(store, g[p].key, Bytes(g[p].response))
    /\ mutex' = 0
    /\ g' = [NoteFresh(p, g[p].key) EXCEPT ![p] = Done(p, "Set", g[p].key, g[p].key \in DOMAIN store)]
    /\ lastSet' = [lastSet EXCEPT ![g[p].key] =
                      [value |-> g[p].response.Value,
                       expiration |-> g[p].response.Expiration,
                       past |-> Before(g[p].response.Expiration, g[p].response.LastAccess),
                       purged |-> FALSE]]
    /\ hits' = [hits EXCEPT ![g[p].key] = 0]
    /\ UNCHANGED <<capacity, algorithm, now, budget, fatal, opts, built, setKeys, onlySets, newKeys>>

\* ------------------------------------------------------ specifications

\* The steps of a Set of goroutine p after the call, and with the call,
\* of a key from K with <<response, expiration>> from A.
SetBody(p) ==
    \/ SetLen(p)
    \/ \E t \in Times : EvictInit(p, t)
    \/ \E k \in AllKeys : EvictRange(p, k)
    \/ EvictRelease(p)
    \/ ReleaseRead(p)
    \/ ReleaseLock(p)
    \/ ReleaseDelete(p)
    \/ SetLock(p)
    \/ SetInsert(p)

SetSteps(p, K, A) ==
    \/ \E k \in K, a \in A, t \in Times : Set(p, k, a[1], a[2], t)
    \/ SetBody(p)

\* The steps of a Get, a Release or a Purge of goroutine p.
OtherSteps(p) ==
    \/ \E k \in Keys : Get(p, k)
    \/ \E t \in Times : GetCheck(p, t)
    \/ \E t \in Times : GetTouch(p, t)
    \/ GetLock(p)
    \/ GetWrite(p)
    \/ \E k \in Keys : Release(p, k)
    \/ Purge(p)
    \/ PurgeMake(p)

\* An adapter built with an algorithm of algs, whose goroutines will make
\* the calls b.
Built(algs, b) ==
    \E alg \in algs :
        Constructed(<<AdapterWithAlgorithm(alg), AdapterWithCapacity(MinCapacity)>>, b)

\* One caller, one call at a time: MaxSeqCalls calls of Get, Set, Release
\* and Purge.
OneCaller(n) == [p \in Procs |-> IF p = SeqProc THEN n ELSE 0]

Init == Built(Algorithms, OneCaller(MaxSeqCalls))

Next ==
    \/ SetSteps(SeqProc, Keys, SetArgs)
    \/ OtherSteps(SeqProc)

Spec == Init /\ [][Next]_vars

\* Concurrent writers: every goroutine makes MaxCalls calls of Set, on an
\* adapter that evicts by lastAccess or one that evicts by frequency.
InitWriters == Built({LRU, LFU}, [p \in Procs |-> MaxCalls])

NextWriters ==
    \/ \E p \in Procs : SetSteps(p, Keys, WriterArgs)
    \/ \E p \in Procs : EvictFatal(p)

SpecWriters == InitWriters /\ [][NextWriters]_vars

\* Concurrent writers of new keys: every goroutine makes MaxCalls calls of
\* Set, each of a key no other call uses.
NewKey(p) == ((p - 1) * MaxCalls + (MaxCalls - budget[p])) % Cardinality(AllKeys)

InitNewKeys == Built(Algorithms, [p \in Procs |-> MaxCalls])

SetNewKey(p, t) == \E a \in WriterArgs : Set(p, NewKey(p), a[1], a[2], t)

NextNewKeys ==
    \/ \E p \in Procs, t \in Times : SetNewKey(p, t)
    \/ \E p \in Procs : SetBody(p)
    \/ \E p \in Procs : EvictFatal(p)

SpecNewKeys == InitNewKeys /\ [][NextNewKeys]_vars

\* Concurrent callers of one key: one goroutine makes MaxCalls calls and
\* every other one call less, of Get, Set, Release and Purge. The store
\* never holds a second entry, so no Set goes to evict.
SharedKeys == {CHOOSE k \in Keys : k # 0}

SharedCalls == [p \in Procs |-> IF p = SeqProc THEN MaxCalls ELSE MaxCalls - 1]

InitShared == Built(Algorithms, SharedCalls)

NextShared ==
    \/ \E p \in Procs, k \in SharedKeys, a \in SetArgs, t \in Times : Set(p, k, a[1], a[2], t)
    \/ \E p \in Procs : SetLen(p)
    \/ \E p \in Procs : SetLock(p)
    \/ \E p \in Procs : SetInsert(p)
    \/ \E p \in Procs, k \in SharedKeys : Get(p, k)
    \/ \E p \in Procs, t \in Times : GetCheck(p, t)
    \/ \E p \in Procs, t \in Times : GetTouch(p, t)
    \/ \E p \in Procs : GetLock(p)
    \/ \E p \in Procs : GetWrite(p)
    \/ \E p \in Procs, k \in SharedKeys : Release(p, k)
    \/ \E p \in Procs : ReleaseRead(p)
    \/ \E p \in Procs : ReleaseLock(p)
    \/ \E p \in Procs : ReleaseDelete(p)
    \/ \E p \in Procs : Purge(p)
    \/ \E p \in Procs : PurgeMake(p)

SpecShared == InitShared /\ [][NextShared]_vars

\* One caller of an LRU adapter, and of an MFU adapter, with one call more.
InitLRU == Built({LRU}, OneCaller(MaxSeqCalls + 1))

SpecLRU == InitLRU /\ [][Next]_vars

InitMFU == Built({MFU}, OneCaller(MaxSeqCalls + 1))

SpecMFU == InitMFU /\ [][Next]_vars

\* The LRU scenario: one caller of an LRU adapter of capacity 3 makes the
\* calls of Script in order, each Set with the key as its value and an
\* expiration that does not pass.
ScenarioCapacity == MinCapacity + 1

SetOf(k) == [op |-> "Set", key |-> k]

GetOf(k) == [op |-> "Get", key |-> k]

Script == <<SetOf(1), SetOf(2), SetOf(3), GetOf(1), SetOf(4),
            GetOf(2), GetOf(1), GetOf(3), GetOf(4)>>

\* The calls of Script that have been made, and the call to make next.
CallsMade == Len(Script) - budget[SeqProc]

NextCall == Script[CallsMade + 1]

InitScenario ==
    Constructed(<<AdapterWithAlgorithm(LRU), AdapterWithCapacity(ScenarioCapacity)>>,
                OneCaller(Len(Script)))

ScenarioSet(t) ==
    /\ budget[SeqProc] > 0
    /\ NextCall.op = "Set"
    /\ Set(SeqProc, NextCall.key, NextCall.key, MaxTime + 1, t)

ScenarioGet ==
    /\ budget[SeqProc] > 0
    /\ NextCall.op = "Get"
    /\ Get(SeqProc, NextCall.key)

NextScenario ==
    \/ \E t \in Times : ScenarioSet(t)
    \/ ScenarioGet
    \/ SetLen(SeqProc)
    \/ \E t \in Times : EvictInit(SeqProc, t)
    \/ \E k \in AllKeys : EvictRange(SeqProc, k)
    \/ EvictRelease(SeqProc)
    \/ ReleaseRead(SeqProc)
    \/ ReleaseLock(SeqProc)
    \/ ReleaseDelete(SeqProc)
    \/ SetLock(SeqProc)
    \/ SetInsert(SeqProc)
    \/ \E t \in Times : GetCheck(SeqProc, t)
    \/ \E t \in Times : GetTouch(SeqProc, t)
    \/ GetLock(SeqProc)
    \/ GetWrite(SeqProc)

SpecScenario == InitScenario /\ [][NextScenario]_vars

\* NewAdapter called with any list of at most MaxOpts options.
CapacityArgs == (-1)..MaxCapacity

AlgorithmArgs == Algorithms \cup {NoAlgorithm, OtherAlgorithm}

Options ==
    {AdapterWithCapacity(c) : c \in CapacityArgs}
        \cup {AdapterWithAlgorithm(a) : a \in AlgorithmArgs}

OptionLists == UNION {[1..n -> Options] : n \in 0..MaxOpts}

InitNew ==
    /\ opts \in OptionLists
    /\ built = "pending"
    /\ capacity = ZeroAdapter.capacity
    /\ algorithm = ZeroAdapter.algorithm
    /\ store = EmptyMap
    /\ mutex = 0
    /\ now = 1
    /\ g = [p \in Procs |-> IdleG]
    /\ budget = [p \in Procs |-> 0]
    /\ fatal = FALSE
    /\ lastSet = [k \in AllKeys |-> NoSet]
    /\ hits = [k \in AllKeys |-> 0]
    /\ setKeys = {}
    /\ onlySets = TRUE
    /\ newKeys = TRUE

\* Lines 207-228: NewAdapter(opts...) returns the adapter or the error.
New ==
    /\ built = "pending"
    /\ LET r == NewAdapter(opts)
       IN  /\ built' = IF r.err THEN "err" ELSE "ok"
           /\ capacity' = r.a.capacity
           /\ algorithm' = r.a.algorithm
    /\ store' = EmptyMap
    /\ UNCHANGED <<mutex, now, g, budget, fatal, opts, lastSet, hits, setKeys, onlySets, newKeys>>

NextNew == New

SpecNew == InitNew /\ [][NextNew]_vars

\* ------------------------------------------------------ properties

\* p's call returns in this step: a call in progress ends, or a call is
\* made that returns at once.
Returns(p) == g'[p].pc = "idle" /\ (g[p].pc # "idle" \/ budget'[p] # budget[p])

\* The map as it was when the call that returns in this step was made.
StoreBefore(p) == IF g[p].pc = "idle" THEN store ELSE g[p].pre

LastAccessOf(m, k) == BytesToResponse(m[k]).LastAccess

FrequencyOf(m, k) == BytesToResponse(m[k]).Frequency

\* Every goroutine has made all its calls and all have returned.
Quiescent == \A p \in Procs : g[p].pc = "idle" /\ budget[p] = 0

\* C1: with one caller, after every completed Set of a sequence of Sets of
\* pairwise distinct keys on a store that started empty, the store holds at
\* most capacity entries.
C1_SizeWithinCapacity ==
    (onlySets /\ newKeys /\ g[SeqProc].pc = "idle") => MapLen(store) <= capacity

\* C2: once every one of the concurrent callers has made its MaxCalls Sets
\* and all have returned, the store holds at most capacity entries.
C2_FinalSizeWithinCapacity ==
    (Quiescent /\ ~fatal) => MapLen(store) <= capacity

\* C3: a Get that returns (value, true) was called with the key stored, the
\* value is the one the last Set of the key gave and that Set's expiration
\* is after the time the Get read; a Get of a key whose last Set gave an
\* expiration before the time of the Set returns (nil, false) and leaves
\* the key out of the store; a miss returns no value.
C3_GetReturnsUnexpiredLastSet ==
    [][\A p \in Procs :
        (Returns(p) /\ g'[p].ret.op = "Get") =>
            LET k == g'[p].ret.key
                r == g'[p].ret
            IN  /\ r.found =>
                    /\ k \in DOMAIN StoreBefore(p)
                    /\ lastSet[k] \notin {NoSet, PurgedSet}
                    /\ r.value = lastSet[k].value
                    /\ r.value # Nil
                    /\ lastSet[k].expiration > g[p].at
                /\ lastSet[k].past => (~r.found /\ k \notin DOMAIN store')
                /\ ~r.found => r.value = Nil]_vars

\* A Get has found the entry of a Set whose expiration was already past
\* expired and holds the Lock to delete it.
C3_Witness ==
    \E p \in Procs :
        /\ g[p].op = "Get"
        /\ g[p].pc = "Release_delete"
        /\ lastSet[g[p].key].past
        /\ g[p].key \in DOMAIN store

\* The case of C4: an LRU store that held exactly capacity entries with
\* pairwise distinct lastAccess when p called Set with a key not present;
\* evict is over and p holds the Lock to insert.
DistinctLastAccess(m) ==
    \A j, k \in DOMAIN m : j # k => LastAccessOf(m, j) # LastAccessOf(m, k)

LeastRecent(m) ==
    CHOOSE k \in DOMAIN m : \A j \in DOMAIN m : LastAccessOf(m, k) <= LastAccessOf(m, j)

C4Case(p) ==
    /\ algorithm = LRU
    /\ g[p].op = "Set"
    /\ g[p].pc = "Set_insert"
    /\ MapLen(g[p].pre) = capacity
    /\ g[p].key \notin DOMAIN g[p].pre
    /\ DistinctLastAccess(g[p].pre)

\* C4: in that case the Set leaves the entries it found but the one with
\* the smallest lastAccess, each as it was, and the new key's entry.
C4_LRUEvictsLeastRecent ==
    [][\A p \in Procs :
        (C4Case(p) /\ Returns(p)) =>
            LET pre == g[p].pre
                victim == LeastRecent(pre)
            IN  /\ DOMAIN store' = (DOMAIN pre \ {victim}) \cup {g[p].key}
                /\ \A j \in DOMAIN pre \ {victim} : store'[j] = pre[j]
                /\ BytesToResponse(store'[g[p].key]).Value = g[p].response.Value]_vars

\* The case of C4 after a Get made the entry that was set first the more
\* recent one: the entry set second is gone.
C4_Witness ==
    \E p \in Procs :
        /\ C4Case(p)
        /\ DOMAIN store = DOMAIN g[p].pre \ {LeastRecent(g[p].pre)}
        /\ \E k \in DOMAIN store : FrequencyOf(store, k) > 1

\* The case of C5: an MFU store that held exactly capacity entries when p
\* called Set with a key not present; evict is over and p holds the Lock
\* to insert.
MostFrequent(m) ==
    {k \in DOMAIN m : \A j \in DOMAIN m : FrequencyOf(m, j) <= FrequencyOf(m, k)}

\* The last key of S in the order the range loop produced the keys.
LastSeen(seen, S) ==
    seen[CHOOSE i \in 1..Len(seen) :
            seen[i] \in S /\ \A j \in (i + 1)..Len(seen) : seen[j] \notin S]

C5Case(p) ==
    /\ algorithm = MFU
    /\ g[p].op = "Set"
    /\ g[p].pc = "Set_insert"
    /\ MapLen(g[p].pre) = capacity
    /\ g[p].key \notin DOMAIN g[p].pre

\* C5: in that case the Set leaves the entries it found but one, each as
\* it was, and the new key's entry; the one removed has the largest
\* frequency and is, of the entries with that frequency, the one the scan
\* produced last.
C5_MFUEvictsMostFrequentSeenLast ==
    [][\A p \in Procs :
        (C5Case(p) /\ Returns(p)) =>
            LET pre == g[p].pre
                victim == LastSeen(g[p].seen, MostFrequent(pre))
            IN  /\ victim \in MostFrequent(pre)
                /\ DOMAIN store' = (DOMAIN pre \ {victim}) \cup {g[p].key}
                /\ \A j \in DOMAIN pre \ {victim} : store'[j] = pre[j]]_vars

\* The case of C5 with two entries of the largest frequency: the one the
\* scan produced first is still stored, the one it produced last is gone.
C5_Witness ==
    \E p \in Procs :
        /\ C5Case(p)
        /\ Cardinality(MostFrequent(g[p].pre)) > 1
        /\ g[p].seen[1] \in DOMAIN store
        /\ g[p].seen[Len(g[p].seen)] \notin DOMAIN store

\* A Get of p returns (value, true) in this step; a Set of p returns.
GetHit(p) == Returns(p) /\ g'[p].ret.op = "Get" /\ g'[p].ret.found

SetDone(p) == Returns(p) /\ g[p].pc = "Set_insert"

\* The entry a Set leaves: frequency 1 and lastAccess the time the Set
\* read, with the value and the expiration the caller gave.
FreshEntry(p) ==
    LET new == BytesToResponse(store'[g[p].key])
    IN  /\ new.Frequency = 1
        /\ new.LastAccess = g[p].at
        /\ new.LastAccess <= now
        /\ new.Value = g[p].response.Value
        /\ new.Expiration = g[p].response.Expiration

\* C6 as stated: a Get that returns found=true leaves the key's lastAccess
\* greater than it was before the call and its frequency one more; a
\* freshly Set entry has frequency 1 and lastAccess the time of the Set.
C6_GetRaisesLastAccess ==
    [][\A p \in Procs :
        /\ GetHit(p) =>
            LET k == g'[p].ret.key
            IN  /\ LastAccessOf(store', k) > LastAccessOf(g[p].pre, k)
                /\ FrequencyOf(store', k) = FrequencyOf(g[p].pre, k) + 1
        /\ SetDone(p) => FreshEntry(p)]_vars

\* C6: a Get that returns found=true leaves the key's lastAccess at a
\* time the clock read during the call, not before the time the Get
\* checked the expiration at and never less than it was before the call,
\* and its frequency one more, the value and the expiration as they were;
\* a freshly Set entry has frequency 1 and lastAccess the time of the Set.
C6_GetRecordsAccess ==
    [][\A p \in Procs :
        /\ GetHit(p) =>
            LET k == g'[p].ret.key
                old == BytesToResponse(g[p].pre[k])
                new == BytesToResponse(store'[k])
            IN  /\ new.LastAccess >= old.LastAccess
                /\ new.LastAccess >= g[p].at
                /\ new.LastAccess <= now
                /\ new.Frequency = old.Frequency + 1
                /\ new.Value = old.Value
                /\ new.Expiration = old.Expiration
        /\ SetDone(p) => FreshEntry(p)]_vars

\* A Get has returned (value, true) and the key's lastAccess is the first
\* reading of the clock, which the Set that made the entry read too: the
\* Get counted the access and left lastAccess as it was.
C6_Witness ==
    \E p \in Procs :
        /\ g[p].ret.op = "Get"
        /\ g[p].ret.found
        /\ g[p].ret.key \in DOMAIN store
        /\ FrequencyOf(store, g[p].ret.key) = 2
        /\ LastAccessOf(store, g[p].ret.key) = 1

\* C7: Purge returns with the store empty; no step changes capacity or
\* algorithm; a Get of a key whose entry a Purge took, and which was not
\* Set since, returns a miss.
C7_PurgeEmptiesStore ==
    [][\A p \in Procs :
        /\ (Returns(p) /\ g'[p].ret.op = "Purge") => MapLen(store') = 0
        /\ (Returns(p) /\ g'[p].ret.op = "Get" /\ lastSet[g'[p].ret.key].purged) =>
                (~g'[p].ret.found /\ g'[p].ret.value = Nil)
        /\ capacity' = capacity
        /\ algorithm' = algorithm]_vars

\* After a Purge of a store that held the key, a Get of the key has
\* returned a miss.
C7_Witness ==
    \E p \in Procs :
        /\ g[p].ret.op = "Get"
        /\ ~g[p].ret.found
        /\ lastSet[g[p].ret.key].purged
        /\ MapLen(store) = 0
        /\ capacity = MinCapacity
        /\ algorithm \in Algorithms

\* C8: a Set of a key that was present when Set was called leaves the set
\* of stored keys as it was and no other key's record changed.
C8_SetOfPresentKeyEvictsNothing ==
    [][\A p \in Procs :
        (SetDone(p) /\ g[p].key \in DOMAIN g[p].pre) =>
            /\ DOMAIN store' = DOMAIN g[p].pre
            /\ \A j \in DOMAIN g[p].pre \ {g[p].key} : store'[j] = g[p].pre[j]]_vars

\* C9: when Release(k) returns k is not stored, and the store is the one
\* Release was called on but for k: every other key has the record it had.
C9_ReleaseRemovesOnlyItsKey ==
    [][\A p \in Procs :
        (Returns(p) /\ g'[p].ret.op = "Release") =>
            LET k == g'[p].ret.key
                pre == StoreBefore(p)
            IN  /\ k \notin DOMAIN store'
                /\ DOMAIN store' = DOMAIN pre \ {k}
                /\ \A j \in DOMAIN store' : store'[j] = pre[j]
                /\ g'[p].ret.found = (k \in DOMAIN pre)]_vars

\* A Release has returned that found its key stored: the key is gone and
\* another entry is still stored.
C9_Witness ==
    \E p \in Procs :
        /\ g[p].ret.op = "Release"
        /\ g[p].ret.found
        /\ g[p].ret.key \notin DOMAIN store
        /\ MapLen(store) > 0

\* C10: NewAdapter succeeds only with a capacity above 1 and an algorithm
\* that is one of LRU, MRU, LFU, MFU.
C10_BuiltOnlyWithKnownAlgorithm ==
    built = "ok" => (capacity > 1 /\ algorithm \in Algorithms)

\* The call of Script made last has returned, and it was the n-th.
AfterCall(n) == g[SeqProc].pc = "idle" /\ CallsMade = n

\* C11: in the LRU scenario with capacity 3, Set(1), Set(2), Set(3),
\* Get(1), Set(4) leaves the keys 1, 3 and 4, the key 2, whose last Set or
\* successful Get is the oldest, being the one evicted; then Get(2) misses
\* and Get(1), Get(3) and Get(4) return their values.
C11_ScenarioEvictsKey2 ==
    /\ AfterCall(5) => DOMAIN store = {1, 3, 4}
    /\ AfterCall(6) => g[SeqProc].ret = GetRet(2, Nil, FALSE)
    /\ AfterCall(7) => g[SeqProc].ret = GetRet(1, 1, TRUE)
    /\ AfterCall(8) => g[SeqProc].ret = GetRet(3, 3, TRUE)
    /\ AfterCall(9) => g[SeqProc].ret = GetRet(4, 4, TRUE)

\* p is in a Set, past the occupancy check of lines 132-135 and before
\* its insert of line 140 has taken effect.
InSetSection(p) ==
    /\ g[p].op = "Set"
    /\ g[p].pc \in {"evict_init", "evict_range", "Release_read", "Release_Lock",
                    "Release_delete", "Set_Lock", "Set_insert"}

\* C12: between a Set's occupancy check and its insert no other caller's
\* write takes effect on the map: every step that changes the map while p
\* is in that section is a step of p, the holder of the Lock.
C12_SetSectionIsAtomic ==
    [][\A p \in Procs : (InSetSection(p) /\ store' # store) => mutex = p]_vars

\* C13: the eviction scan never runs while another caller is writing: no
\* goroutine is inside evict's range loop while another one holds the Lock.
C13_ScanExcludesWriters ==
    \A p \in Procs : g[p].pc = "evict_range" => mutex \notin Procs \ {p}

\* C14: with concurrent callers of Set the store never holds more than
\* capacity + 1 entries.
C14_SizeWithinCapacityPlusOne == MapLen(store) <= capacity + 1

\* No call is in progress.
AllReturned == \A p \in Procs : g[p].pc = "idle"

\* A Set of k has returned and no delete and no Purge has removed k since.
SetOnRecord(k) == lastSet[k] # NoSet /\ lastSet[k] # PurgedSet

\* C15: the frequency of a stored key is at least 1 and, once all calls
\* have returned, is 1 plus the number of Gets of the key that returned
\* found since the last Set of it returned, concurrent Gets included.
C15_FrequencyCountsEveryHit ==
    \A k \in DOMAIN store :
        /\ FrequencyOf(store, k) >= 1
        /\ (AllReturned /\ SetOnRecord(k)) => FrequencyOf(store, k) = 1 + hits[k]

\* C16: while a key stays stored its lastAccess never decreases from one
\* state to the next, whatever the interleaving of Gets and Sets of it.
C16_LastAccessNeverDecreases ==
    [][\A k \in DOMAIN store \cap DOMAIN store' :
           LastAccessOf(store', k) >= LastAccessOf(store, k)]_vars

\* C17: Get writes back only lastAccess and frequency: once a Set of a key
\* has returned, the key's stored value and expiration are that Set's until
\* the next Set of the key or its removal, also when a Get that read the
\* older record writes back afterwards.
C17_StoredValueIsLastSet ==
    \A k \in DOMAIN store :
        SetOnRecord(k) =>
            /\ BytesToResponse(store[k]).Value = lastSet[k].value
            /\ BytesToResponse(store[k]).Expiration = lastSet[k].expiration

\* p's Get writes its record back in this step (lines 113-115).
GetWritesBack(p) == g[p].pc = "Get_write" /\ g'[p].pc = "idle"

\* C18: a Get makes no absent key present and does not add to the size of
\* the store: a key removed by a Release, a Purge or an eviction stays
\* absent until a later Set of it, also when a Get that read its record
\* before the removal writes back after it.
C18_GetAddsNoKey ==
    [][\A p \in Procs :
           GetWritesBack(p) =>
               /\ DOMAIN store' \subseteq DOMAIN store
               /\ MapLen(store') <= MapLen(store)]_vars

\* p's Get, having found its record expired, deletes the key in this step
\* (line 119, lines 152-153) and returns.
GetDeletes(p) ==
    /\ g[p].op = "Get"
    /\ g[p].pc = "Release_delete"
    /\ g'[p].pc = "idle"
    /\ g[p].rkey \in DOMAIN store

\* C19: the removal a Get performs for an expired record deletes only that
\* record: an unexpired entry that a Set stored between the Get's read and
\* its removal step is still stored when the Get returns.
C19_GetDeletesOnlyExpired ==
    [][\A p \in Procs :
           (GetDeletes(p) /\ After(BytesToResponse(store[g[p].rkey]).Expiration, now))
               => g[p].rkey \in DOMAIN store']_vars

\* The eviction pass of p's Set deletes a stored key in this step (line
\* 203, lines 152-153).
EvictDeletes(p) ==
    /\ g[p].op = "Set"
    /\ g[p].pc = "Release_delete"
    /\ g'[p].pc = "Set_Lock"
    /\ g[p].rkey \in DOMAIN store

\* The entry of key k passes the policy comparison against the values the
\* scan started with at time t; an entry the scan selected passes it.
PassesComparison(k, t) ==
    EvictVisit(algorithm, EvictStart(algorithm, t), k, store[k]) # EvictStart(algorithm, t)

\* C20: an eviction pass removes only an entry that passes the policy
\* comparison; when none does, it removes nothing, and key 0 is not removed
\* for being the initial value of selectedKey. With one caller the clock is
\* not read between the start of the scan and the removal.
C20_EvictRemovesOnlySelected ==
    [][\A p \in Procs : EvictDeletes(p) => PassesComparison(g[p].rkey, now)]_vars

====
